---- MODULE Spec2Model ----
(***************************************************************************)
(* Model of bin/chrome_update_manifest.py: the regeneration of the         *)
(* autogenerated region of a repo manifest from .DEPS.git mappings, and    *)
(* the PerformUpdate sequence (CreateNewManifest, IsNewManifestDifferent,  *)
(* TestNewManifest, PushChanges).                                          *)
(*                                                                         *)
(* A document (the text of a manifest file) is a sequence of tokens.  A    *)
(* token is a piece of text that the program's regular expressions and    *)
(* the XML parser treat as a unit: a marker comment, a newline, a run of   *)
(* blanks, a <project .../> element, a header comment, or other non-blank  *)
(* hand-maintained text.  A path is the sequence of its "/"-separated      *)
(* components.                                                             *)
(***************************************************************************)
EXTENDS Integers, Sequences, FiniteSets, TLC

(***************************************************************************)
(* Bounds of the model.                                                    *)
(***************************************************************************)
MaxRuns == 2        \* PerformUpdate runs on the same Manifest files
MaxDeps == 2        \* relative paths a .DEPS.git / cros.DEPS mapping may hold
MaxIntDeps == 1     \* relative paths the internal .DEPS.git mapping may hold
MaxProjects == 2    \* project ids the mappings draw from
MaxBlank == 2       \* newlines opening the text after the end marker

(***************************************************************************)
(* Tokens.                                                                 *)
(***************************************************************************)
Tok(k) == [k |-> k, name |-> "", path |-> <<>>, haspath |-> FALSE, remote |-> ""]

\* "\n"
NL == Tok("nl")
\* a run of blanks inside a line
SP == Tok("sp")
\* hand-maintained non-blank text (<manifest>, </manifest>, a comment, ...)
TXT == Tok("text")

IsSpace(t) == t.k \in {"nl", "sp"}

\* a <project .../> element with its attributes
ProjectTok(name, path, haspath, remote) ==
  [k |-> "project", name |-> name, path |-> path, haspath |-> haspath,
   remote |-> remote]

\* _BEGIN_MARKER.strip() and _END_MARKER.strip(): the marker comments
BEGIN_TEXT == Tok("begin")
END_TEXT == Tok("end")

_BEGIN_MARKER == <<BEGIN_TEXT, NL, NL>>
_END_MARKER == <<END_TEXT, NL, NL>>
_EXTERNAL_HEADER == <<Tok("external_header"), NL, NL>>
_CROS_HEADER == <<Tok("cros_header"), NL, NL>>
_INTERNAL_HEADER == <<Tok("internal_header"), NL, NL>>

\* template % {'path': path, 'name': name}
_EXTERNAL_PROJECT(path, name) == <<ProjectTok(name, path, TRUE, ""), NL>>
_INTERNAL_PROJECT(path, name) ==
  <<ProjectTok(name, path, TRUE, "cros-internal"), NL>>

Render(template, path, name) ==
  IF template = "internal" THEN _INTERNAL_PROJECT(path, name)
                           ELSE _EXTERNAL_PROJECT(path, name)

_TEST_MANIFEST_TEMPLATE(content) == <<TXT, NL>> \o content \o <<NL, TXT>>

(***************************************************************************)
(* Small helpers on sequences and sets.                                    *)
(***************************************************************************)
Max(S) == CHOOSE x \in S : \A y \in S : y <= x

Range(s) == {s[i] : i \in DOMAIN s}

\* the orders in which the elements of S can be enumerated
Enumerations(S) ==
  {s \in [1..Cardinality(S) -> S] : \A i, j \in DOMAIN s : i # j => s[i] # s[j]}

(***************************************************************************)
(* Paths.                                                                  *)
(***************************************************************************)
\* os.path.join(a, rel_path): an absolute rel_path (first component empty)
\* discards a
PathJoin(a, rel_path) ==
  IF Len(rel_path) > 0 /\ rel_path[1] = "" THEN rel_path ELSE <<a>> \o rel_path

\* path.startswith('chromium/')
StartsWithChromium(path) == Len(path) >= 2 /\ path[1] = "chromium"

(***************************************************************************)
(* _PartitionManifest: re.match, with re.DOTALL, of a pattern of five      *)
(* groups: any text, the begin marker, any text, the end marker, any text. *)
(* Every any-text group is greedy: the first takes the longest prefix      *)
(* after which the rest can still match, so the begin marker used is the   *)
(* last one that has an end marker somewhere after it; the third group     *)
(* then extends to the last end marker of the document.                    *)
(***************************************************************************)
MatchBegins(lines) ==
  {i \in DOMAIN lines :
     /\ lines[i] = BEGIN_TEXT
     /\ \E j \in DOMAIN lines : j > i /\ lines[j] = END_TEXT}

MatchEnds(lines, i) == {j \in DOMAIN lines : j > i /\ lines[j] = END_TEXT}

Groups(lines, i, j) ==
  [ok |-> TRUE,
   top |-> SubSeq(lines, 1, i - 1),
   mid |-> SubSeq(lines, i + 1, j - 1),
   bot |-> SubSeq(lines, j + 1, Len(lines))]

NoMatch == [ok |-> FALSE, top |-> <<>>, mid |-> <<>>, bot |-> <<>>]

Min(S) == CHOOSE x \in S : \A y \in S : x <= y

\* a partition with non-greedy groups: the first begin marker and the first
\* end marker after it
PartitionManifest_first(lines) ==
  IF MatchBegins(lines) = {} THEN NoMatch
  ELSE LET i == Min(MatchBegins(lines))
           j == Min(MatchEnds(lines, i))
       IN  Groups(lines, i, j)

\* a partition that takes the end of the document for a missing end marker
PartitionManifest_open(lines) ==
  IF MatchBegins(lines) # {}
  THEN LET i == Max(MatchBegins(lines))
           j == Max(MatchEnds(lines, i))
       IN  Groups(lines, i, j)
  ELSE IF \E i \in DOMAIN lines : lines[i] = BEGIN_TEXT
  THEN LET i == Max({k \in DOMAIN lines : lines[k] = BEGIN_TEXT})
       IN  Groups(lines, i, Len(lines) + 1)
  ELSE NoMatch

\* ok = FALSE stands for raise ManifestException('... markers not found!')
_PartitionManifest(lines) ==
  IF MatchBegins(lines) = {} THEN NoMatch
  ELSE LET i == Max(MatchBegins(lines))
           j == Max(MatchEnds(lines, i))
       IN  Groups(lines, i, j)

(***************************************************************************)
(* The re.match on bottom_part, with re.S | re.M, of: blanks, then a group *)
(* of a line start, blanks, non-blanks and the rest.  The leading blanks   *)
(* are greedy and give back until the line start matches, i.e. until the   *)
(* position is the start of the text or follows a newline; group 1 runs    *)
(* from there to the end.  With no non-blank character there is no match   *)
(* and .group raises AttributeError (ok = FALSE).                          *)
(***************************************************************************)
LeadingSpace(s) ==
  Max({k \in 0..Len(s) : \A i \in 1..k : IsSpace(s[i])})

\* a strip that drops every leading blank, the first line's indentation too
StripEmptyLines_lstrip(bottom_part) ==
  LET w == LeadingSpace(bottom_part)
  IN  IF w = Len(bottom_part) THEN [ok |-> FALSE, text |-> <<>>]
      ELSE [ok |-> TRUE, text |-> SubSeq(bottom_part, w + 1, Len(bottom_part))]

StripEmptyLines(bottom_part) ==
  LET w == LeadingSpace(bottom_part)
  IN  IF w = Len(bottom_part) THEN [ok |-> FALSE, text |-> <<>>]
      ELSE LET k == Max({n \in 0..w : n = 0 \/ bottom_part[n] = NL})
           IN  [ok |-> TRUE,
                text |-> SubSeq(bottom_part, k + 1, Len(bottom_part))]

(***************************************************************************)
(* ParseManifestString: handler.projects is a dict from project name to    *)
(* the attributes of a <project> element (it is iterated with iteritems()  *)
(* as (project, attributes) and its keys() are the project names).  A dict *)
(* holds one value per key, so of several elements with one name the       *)
(* attributes of a single one are kept; which one is decided by            *)
(* cros_lib.ManifestHandler, so every choice is a possible result.         *)
(***************************************************************************)
ProjectToks(manifest_xml) ==
  {manifest_xml[i] : i \in {k \in DOMAIN manifest_xml :
                               manifest_xml[k].k = "project"}}

ParseManifestString(manifest_xml) ==
  LET toks  == ProjectToks(manifest_xml)
      names == {t.name : t \in toks}
  IN  {h \in [names -> toks] : \A n \in names : h[n].name = n}

\* attributes.get('path', '')
GetPath(attributes) == IF attributes.haspath THEN attributes.path ELSE <<>>

\* TRUE when the loop ends without raising ManifestException
CheckForNonChromeProjects(projects) ==
  \A project \in DOMAIN projects : StartsWithChromium(GetPath(projects[project]))

\* ParseManifestString(manifest_xml).projects.keys()
GetListOfProjects(manifest_xml) ==
  {t.name : t \in ProjectToks(manifest_xml)}

(***************************************************************************)
(* ConvertDepsToManifest.  items is mappings.items() in the order the dict *)
(* enumerates it; sorted(..., key=project) is a stable sort, so items of   *)
(* one project keep their enumeration order.                               *)
(***************************************************************************)
\* the project ids of the dependency files, in Python's string order
ProjectIds == <<"p1", "p2", "p3", "p4">>

Rank(project) == CHOOSE i \in DOMAIN ProjectIds : ProjectIds[i] = project

\* x put after every element whose key is not greater (stable)
InsertSorted(x, s) ==
  LET n == Cardinality({i \in DOMAIN s : Rank(s[i][2]) <= Rank(x[2])})
  IN  SubSeq(s, 1, n) \o <<x>> \o SubSeq(s, n + 1, Len(s))

RECURSIVE SortedByProject(_)
SortedByProject(items) ==
  IF items = <<>> THEN <<>>
  ELSE InsertSorted(items[Len(items)],
                    SortedByProject(SubSeq(items, 1, Len(items) - 1)))

\* a loop body without the test "project in previous_projects"
ConvertStep_nodouble(acc, item, template, blacklist) ==
  LET rel_path == PathJoin("chromium", item[1])
      project  == item[2]
  IN  IF blacklist # {} /\ project \in blacklist
      THEN [acc EXCEPT !.warnings = Append(@, <<"skipping", project>>)]
      ELSE [acc EXCEPT !.out = @ \o Render(template, rel_path, project),
                       !.previous_projects = @ \cup {project}]

\* one iteration of the for loop
ConvertStep(acc, item, template, blacklist) ==
  LET rel_path == PathJoin("chromium", item[1])
      project  == item[2]
  IN  IF blacklist # {} /\ project \in blacklist
      THEN [acc EXCEPT !.warnings = Append(@, <<"skipping", project>>)]
      ELSE IF project \in acc.previous_projects
      THEN [acc EXCEPT !.warnings = Append(@, <<"double checkout", project>>)]
      ELSE [acc EXCEPT !.out = @ \o Render(template, rel_path, project),
                       !.previous_projects = @ \cup {project}]

RECURSIVE ConvertLoop(_, _, _, _)
ConvertLoop(acc, sorted, template, blacklist) ==
  IF sorted = <<>> THEN acc
  ELSE ConvertLoop(ConvertStep(acc, sorted[1], template, blacklist),
                   SubSeq(sorted, 2, Len(sorted)), template, blacklist)

\* the text written to manifest_file and the warnings logged
ConvertDepsToManifest(items, template, blacklist) ==
  ConvertLoop([out |-> <<>>, warnings |-> <<>>, previous_projects |-> {}],
              SortedByProject(items), template, blacklist)

(***************************************************************************)
(* Inputs: the mappings GetPathToProjectMappings returns for the three     *)
(* dependency files, and the live manifest documents.                      *)
(***************************************************************************)
RelPathNames == <<"a", "b", "c", "d">>

RelPaths(n) == {<<RelPathNames[i]>> : i \in 1..n}

DepProjects == {ProjectIds[i] : i \in 1..MaxProjects}

\* the dicts from relative path to project id over at most n paths
Mappings(n) == UNION {[S -> DepProjects] : S \in SUBSET RelPaths(n)}

\* mappings.items(), as a set
Items(mappings) == {<<rel_path, mappings[rel_path]>> : rel_path \in DOMAIN mappings}

EmptyMapping == CHOOSE m \in Mappings(0) : TRUE

PA == <<"a">>
PB == <<"b">>

BaseDeps == [x \in {PA} |-> "p1"]
BaseCros == [x \in {PB} |-> "p2"]

\* triples (.DEPS.git, cros.DEPS, internal .DEPS.git) the documents are tried
\* with: one without and one with double checkouts
BaseMappings ==
  {<<BaseDeps, BaseCros, [x \in {PA} |-> "p2"]>>,
   <<[x \in {PA, PB} |-> "p1"], [x \in {PA, PB} |-> "p2"], EmptyMapping>>}

\* every .DEPS.git mapping, every cros.DEPS mapping
ExternalMappings ==
  {<<d, BaseCros, EmptyMapping>> : d \in Mappings(MaxDeps)}
  \cup {<<BaseDeps, c, EmptyMapping>> : c \in Mappings(MaxDeps)}

\* every internal .DEPS.git mapping
InternalMappings == {<<BaseDeps, BaseCros, i>> : i \in Mappings(MaxIntDeps)}

Chromium(name) == ProjectTok(name, <<"chromium", "dir">>, TRUE, "")
Foreign(name) == ProjectTok(name, <<"src", "dir">>, TRUE, "")

Doc(top, region, bottom) ==
  top \o <<BEGIN_TEXT>> \o region \o <<END_TEXT>> \o bottom

BaseTop == <<TXT, NL>>
BaseRegion == <<NL, NL, Chromium("p1"), NL, NL>>
BaseBottom == <<NL, NL, TXT>>

\* texts before the begin marker: with a project, with markers of their own
Tops ==
  {<<TXT, NL, Foreign("p2"), NL>>,
   <<TXT, NL, BEGIN_TEXT, NL, END_TEXT, NL>>,
   <<TXT, NL, END_TEXT, NL>>,
   <<TXT, NL, BEGIN_TEXT, NL>>}

\* texts between the markers: empty, with a project outside chromium/, with a
\* project without path, with two elements of one name, with a second end marker
Regions ==
  {<<NL, NL>>,
   <<NL, NL, Foreign("p3"), NL>>,
   <<NL, NL, ProjectTok("p3", <<>>, FALSE, ""), NL>>,
   <<NL, NL, ProjectTok("p3", <<"chromium">>, TRUE, ""), NL>>,
   <<NL, NL, Foreign("p3"), NL, Chromium("p3"), NL>>,
   <<NL, NL, Chromium("p3"), NL, Foreign("p3"), NL>>,
   <<NL, END_TEXT, NL>>}

Blank(n) == [i \in 1..n |-> NL]

\* texts after the end marker: up to MaxBlank newlines, then nothing, blanks,
\* text, indented text, a project, a begin marker
Bottoms ==
  {Blank(n) \o rest :
     n \in 0..MaxBlank,
     rest \in {<<TXT>>, <<SP, TXT>>, <<>>, <<SP>>,
               <<Foreign("p1"), NL, TXT>>, <<BEGIN_TEXT, NL, TXT>>}}

WellFormedDocs ==
  {Doc(top, region, BaseBottom) :
     top \in Tops \cup {BaseTop}, region \in Regions \cup {BaseRegion}}
  \cup {Doc(top, BaseRegion, bottom) :
          top \in Tops \cup {BaseTop}, bottom \in Bottoms}

\* no begin marker, no end marker, neither, the only end marker before begin
MalformedDocs ==
  {<<TXT, NL, NL, Chromium("p1"), NL, END_TEXT, NL, NL, TXT>>,
   <<TXT, NL, BEGIN_TEXT, NL, Chromium("p1"), NL, NL, TXT>>,
   <<TXT, NL, Chromium("p1"), NL, TXT>>,
   <<TXT, NL, END_TEXT, NL, Chromium("p1"), NL, BEGIN_TEXT, NL, NL, TXT>>}

\* documents the mappings are tried with: without and with projects outside
\* the markers
BaseDocs ==
  {Doc(BaseTop, BaseRegion, BaseBottom),
   Doc(<<TXT, NL, Foreign("p2"), NL>>, BaseRegion,
       <<NL, NL, Foreign("p1"), NL, TXT>>)}

\* triples (live manifest, mappings, internal)
Inputs ==
  ((WellFormedDocs \cup MalformedDocs) \X BaseMappings \X {FALSE})
  \cup (BaseDocs \X BaseMappings \X {TRUE})
  \cup (BaseDocs \X ExternalMappings \X {FALSE})
  \cup (BaseDocs \X InternalMappings \X {TRUE})

(***************************************************************************)
(* State.                                                                  *)
(***************************************************************************)
VARIABLES
  live,         \* the text of the file manifest_path
  staged,       \* the text of the file new_manifest_path
  stagedExists, \* whether new_manifest_path exists
  deps,         \* path-to-project mapping of chromium/src/.DEPS.git
  crosDeps,     \* path-to-project mapping of tools/cros.DEPS/DEPS
  intDeps,      \* path-to-project mapping of chromium/src-internal/.DEPS.git
  internal,     \* self.internal
  pc,           \* where PerformUpdate is
  exc,          \* the exception propagating, or "none"
  parts,        \* top_part, overwritten, bottom_part of CreateNewManifest
  checked,      \* CheckForNonChromeProjects returned in this run
  generated,    \* what CreateNewManifest wrote in this run
  convLog,      \* the calls of ConvertDepsToManifest in this run
  calls,        \* the calls of repo.Sync and PushChanges in this run
  atStart,      \* the two files when this run began
  prev,         \* the previous run: its files at start, what it wrote
  run           \* number of the PerformUpdate run

vars == <<live, staged, stagedExists, deps, crosDeps, intDeps, internal, pc,
          exc, parts, checked, generated, convLog, calls, atStart, prev, run>>

NotGenerated == [done |-> FALSE, complete |-> FALSE, doc |-> <<>>]

NoPrev ==
  [ran |-> FALSE, live |-> <<>>, generated |-> NotGenerated, moved |-> FALSE]

Files == [live |-> live, staged |-> staged, stagedExists |-> stagedExists]

Init ==
  /\ \E in \in Inputs :
       /\ live = in[1]
       /\ deps = in[2][1]
       /\ crosDeps = in[2][2]
       /\ intDeps = in[2][3]
       /\ internal = in[3]
       /\ atStart = [live |-> in[1], staged |-> <<>>, stagedExists |-> FALSE]
  /\ staged = <<>>
  /\ stagedExists = FALSE
  /\ pc = "start"
  /\ exc = "none"
  /\ parts = NoMatch
  /\ checked = FALSE
  /\ generated = NotGenerated
  /\ convLog = <<>>
  /\ calls = <<>>
  /\ prev = NoPrev
  /\ run = 1

(***************************************************************************)
(* CreateNewManifest, lines 189-219: what is written to new_manifest_path  *)
(* before the stripped bottom part, and the conversions made on the way.   *)
(***************************************************************************)
Conversions(p, e1, e2, e3) ==
  LET c1 == ConvertDepsToManifest(e1, "external", {})
      c2 == ConvertDepsToManifest(e2, "external",
                                  GetListOfProjects(p.top \o p.bot))
      c3 == ConvertDepsToManifest(e3, "internal", {})
  IN  <<[file |-> ".DEPS.git", items |-> e1, blacklist |-> {},
         out |-> c1.out, warnings |-> c1.warnings],
        [file |-> "cros.DEPS", items |-> e2,
         blacklist |-> GetListOfProjects(p.top \o p.bot),
         out |-> c2.out, warnings |-> c2.warnings]>>
      \o (IF internal
          THEN <<[file |-> "internal .DEPS.git", items |-> e3, blacklist |-> {},
                  out |-> c3.out, warnings |-> c3.warnings]>>
          ELSE <<>>)

Written(p, conv) ==
  p.top
  \o _BEGIN_MARKER \o _EXTERNAL_HEADER
  \o _EXTERNAL_PROJECT(<<"chromium", "src">>, "chromium/src")
  \o conv[1].out \o <<NL>>
  \o _CROS_HEADER
  \o conv[2].out \o <<NL>>
  \o (IF internal
      THEN _INTERNAL_HEADER
           \o _INTERNAL_PROJECT(<<"chromium", "src-internal">>,
                                "chrome/src-internal")
           \o conv[3].out \o <<NL>>
      ELSE <<>>)
  \o _END_MARKER

\* raise out of CreateNewManifest before new_manifest_path is opened
Raise(e, p) ==
  /\ pc' = "failed"
  /\ exc' = e
  /\ parts' = p
  /\ UNCHANGED <<live, staged, stagedExists, generated, convLog>>

\* manifest_version.PrepForChanges (line 183) prepares the git checkout of
\* manifest_dir and writes neither of the two files.  A ManifestException
\* passes through the except clause of PerformUpdate (lines 267-269), which
\* logs and re-raises; any other exception is not caught there.
CreateNewManifest ==
  /\ pc = "start"
  /\ LET p == _PartitionManifest(live)
     IN  IF ~p.ok
         THEN Raise("ManifestException", p) /\ checked' = FALSE
         ELSE \E handler \in ParseManifestString(_TEST_MANIFEST_TEMPLATE(p.mid)) :
                IF ~CheckForNonChromeProjects(handler)
                THEN Raise("ManifestException", p) /\ checked' = FALSE
                ELSE \E e1 \in Enumerations(Items(deps)),
                        e2 \in Enumerations(Items(crosDeps)),
                        e3 \in Enumerations(Items(intDeps)) :
                       LET conv   == Conversions(p, e1, e2, e3)
                           w      == Written(p, conv)
                           bottom == StripEmptyLines(p.bot)
                           doc    == IF bottom.ok THEN w \o bottom.text ELSE w
                       IN  /\ parts' = p
                           /\ checked' = TRUE
                           /\ convLog' = conv
                           /\ staged' = doc
                           /\ stagedExists' = TRUE
                           /\ generated' = [done |-> TRUE, complete |-> bottom.ok,
                                            doc |-> doc]
                           /\ pc' = IF bottom.ok THEN "created" ELSE "failed"
                           /\ exc' = IF bottom.ok THEN "none" ELSE "AttributeError"
                           /\ UNCHANGED live
  /\ UNCHANGED <<deps, crosDeps, intDeps, internal, calls, atStart, prev, run>>

\* filecmp.cmp(new_manifest_path, manifest_path, shallow=False)
FilesEqual(f1, f2) == f1 = f2

IsNewManifestDifferent ==
  /\ pc = "created"
  /\ pc' = IF ~FilesEqual(staged, live) THEN "test" ELSE "noop"
  /\ UNCHANGED <<live, staged, stagedExists, deps, crosDeps, intDeps, internal,
                 exc, parts, checked, generated, convLog, calls, atStart, prev,
                 run>>

(***************************************************************************)
(* TestNewManifest: try: repo.Sync(new manifest); except: log and raise;   *)
(* finally: repo.Sync(default manifest).                                   *)
(***************************************************************************)
\* a try block that goes to the finally block only when nothing was raised
AfterTrySync_nofinally(raised) == IF raised THEN "failed" ELSE "finally"

\* where control goes when the try block is left
AfterTrySync(raised) == "finally"

\* a finally block that swallows the pending exception
AfterFinally_swallow(pending, raised) == IF raised THEN "failed" ELSE "push"

\* where control goes when the finally block is left
AfterFinally(pending, raised) ==
  IF raised \/ pending # "none" THEN "failed" ELSE "push"

TrySync ==
  /\ pc = "test"
  /\ \E raised \in BOOLEAN :
       /\ calls' = Append(calls, IF raised THEN "Sync(new) raised"
                                           ELSE "Sync(new)")
       /\ exc' = IF raised THEN "SyncError" ELSE "none"
       /\ pc' = AfterTrySync(raised)
  /\ UNCHANGED <<live, staged, stagedExists, deps, crosDeps, intDeps, internal,
                 parts, checked, generated, convLog, atStart, prev, run>>

FinallySync ==
  /\ pc = "finally"
  /\ \E raised \in BOOLEAN :
       /\ calls' = Append(calls, IF raised THEN "Sync(default) raised"
                                           ELSE "Sync(default)")
       /\ exc' = IF raised THEN "SyncError" ELSE exc
       /\ pc' = AfterFinally(exc, raised)
  /\ UNCHANGED <<live, staged, stagedExists, deps, crosDeps, intDeps, internal,
                 parts, checked, generated, convLog, atStart, prev, run>>

\* shutil.move, then git add, git commit and the push, any of which may fail
PushChanges ==
  /\ pc = "push"
  /\ live' = staged
  /\ staged' = <<>>
  /\ stagedExists' = FALSE
  /\ \E failed \in BOOLEAN :
       /\ calls' = Append(calls, "PushChanges")
       /\ exc' = IF failed THEN "RunCommandError" ELSE "none"
       /\ pc' = IF failed THEN "failed" ELSE "published"
  /\ UNCHANGED <<deps, crosDeps, intDeps, internal, parts, checked, generated,
                 convLog, atStart, prev, run>>

\* the script is run again (it is meant to be run periodically)
NextRun ==
  /\ pc \in {"noop", "published", "failed"}
  /\ run < MaxRuns
  /\ run' = run + 1
  /\ prev' = [ran |-> TRUE, live |-> atStart.live, generated |-> generated,
              moved |-> \E i \in DOMAIN calls : calls[i] = "PushChanges"]
  /\ atStart' = Files
  /\ pc' = "start"
  /\ exc' = "none"
  /\ parts' = NoMatch
  /\ checked' = FALSE
  /\ generated' = NotGenerated
  /\ convLog' = <<>>
  /\ calls' = <<>>
  /\ UNCHANGED <<live, staged, stagedExists, deps, crosDeps, intDeps, internal>>

Next ==
  \/ CreateNewManifest
  \/ IsNewManifestDifferent
  \/ TrySync
  \/ FinallySync
  \/ PushChanges
  \/ NextRun

Spec == Init /\ [][Next]_vars

(***************************************************************************)
(* Properties.                                                             *)
(***************************************************************************)
Called(c) == \E i \in DOMAIN calls : calls[i] = c

Has(doc, t) == \E i \in DOMAIN doc : doc[i] = t

\* the text after the last end marker of a document
AfterLastEnd(doc) ==
  LET j == Max({i \in DOMAIN doc : doc[i] = END_TEXT})
  IN  SubSeq(doc, j + 1, Len(doc))

\* C1: the live manifest is overwritten only by PushChanges, and PushChanges
\* is reached only after CheckForNonChromeProjects has passed and the trial
\* sync with the staged manifest has returned without raising; when the run
\* ends with no difference or with a failure before PushChanges, the live
\* manifest is what it was when the run began.
C1_LiveOverwrittenOnlyAfterCheckAndTrial ==
  /\ (pc = "push" \/ Called("PushChanges"))
       => /\ checked
          /\ Called("Sync(new)")
          /\ ~Called("Sync(new) raised")
  /\ live # atStart.live => Called("PushChanges")
  /\ (pc \in {"noop", "failed"} /\ ~Called("PushChanges"))
       => live = atStart.live

\* a run that published: the live manifest was replaced
C1_Witness ==
  /\ pc = "published"
  /\ live # atStart.live
  /\ live = generated.doc

BeginMissing(doc) == ~Has(doc, BEGIN_TEXT)
EndMissing(doc) == ~Has(doc, END_TEXT)
OnlyEndPrecedesBegin(doc) ==
  /\ Cardinality({i \in DOMAIN doc : doc[i] = END_TEXT}) = 1
  /\ Has(doc, BEGIN_TEXT)
  /\ \A i, j \in DOMAIN doc :
       (doc[i] = END_TEXT /\ doc[j] = BEGIN_TEXT) => i < j

\* C3: when the live manifest has no begin marker, no end marker, or its only
\* end marker before the begin marker, CreateNewManifest raises
\* ManifestException and neither file is written: the staged file is as it
\* was (not created) and the live manifest is unchanged.
C3_MarkersNotFoundAbortsBeforeWrite ==
  (/\ pc # "start"
   /\ \/ BeginMissing(atStart.live)
      \/ EndMissing(atStart.live)
      \/ OnlyEndPrecedesBegin(atStart.live))
  => /\ pc = "failed"
     /\ exc = "ManifestException"
     /\ ~generated.done
     /\ Files = atStart
     /\ ~stagedExists

\* CreateNewManifest has raised on a manifest whose only end marker precedes
\* the begin marker
C3_Witness ==
  /\ pc = "failed"
  /\ exc = "ManifestException"
  /\ OnlyEndPrecedesBegin(atStart.live)

IsTrial(c) == c \in {"Sync(new)", "Sync(new) raised"}
IsRevert(c) == c \in {"Sync(default)", "Sync(default) raised"}

\* C4: once the trial sync has been started, the sync back to the default
\* manifest is the next call made, whether the trial sync returned or raised:
\* outside the finally block no trial sync is left without its revert, so the
\* revert comes before PushChanges and before the failure reaches the caller.
C4_RevertFollowsTrial ==
  /\ \A i \in DOMAIN calls :
       IsTrial(calls[i]) =>
         IF i = Len(calls) THEN pc = "finally" ELSE IsRevert(calls[i + 1])
  /\ \A i \in DOMAIN calls :
       calls[i] = "PushChanges" => \E j \in 1..(i - 1) : IsRevert(calls[j])

\* the trial sync raised, the revert ran, and the failure reached the caller
C4_Witness ==
  /\ pc = "failed"
  /\ exc = "SyncError"
  /\ calls = <<"Sync(new) raised", "Sync(default)">>

\* the parts put back around the marker comments
Reassembled(p) == p.top \o <<BEGIN_TEXT>> \o p.mid \o <<END_TEXT>> \o p.bot

\* C7 as stated: the split is at the first begin marker of the document and
\* at the first end marker after it, so no begin marker is left in the first
\* part and no end marker in the part between.
C7_SplitsAtFirstOccurrences ==
  parts.ok =>
    /\ Reassembled(parts) = atStart.live
    /\ ~Has(parts.top, BEGIN_TEXT)
    /\ ~Has(parts.mid, END_TEXT)

\* C7 as amended: the split is at the last begin marker that has an end marker
\* after it and at the last end marker of the document: the three parts with
\* the two markers between them are the document, no end marker is left in
\* the last part and no begin marker in the part between; in a document with
\* one begin and one end marker these are the first occurrences.
C7_SplitsAtLastOccurrences ==
  parts.ok =>
    /\ Reassembled(parts) = atStart.live
    /\ ~Has(parts.bot, END_TEXT)
    /\ ~Has(parts.mid, BEGIN_TEXT)
    /\ (/\ Cardinality({i \in DOMAIN atStart.live :
                          atStart.live[i] = BEGIN_TEXT}) = 1
        /\ Cardinality({i \in DOMAIN atStart.live :
                          atStart.live[i] = END_TEXT}) = 1)
         => (~Has(parts.top, BEGIN_TEXT) /\ ~Has(parts.mid, END_TEXT))

\* a manifest with a marker pair before the one used, and a second end marker
\* between the markers used
C7_Witness ==
  /\ parts.ok
  /\ Has(parts.top, BEGIN_TEXT)
  /\ Has(parts.top, END_TEXT)
  /\ Has(parts.mid, END_TEXT)

\* the relative paths a conversion's mapping gives for a project
PathsOf(c, project) ==
  {c.items[i][1] : i \in {k \in DOMAIN c.items : c.items[k][2] = project}}

\* the <project> elements a conversion wrote for a project
EntriesOf(c, project) ==
  {i \in DOMAIN c.out : c.out[i].k = "project" /\ c.out[i].name = project}

WarningsOf(c, kind, project) ==
  {i \in DOMAIN c.warnings : c.warnings[i] = <<kind, project>>}

\* the first item of a project in the order the mapping was enumerated
FirstItemOf(c, project) ==
  c.items[Min({k \in DOMAIN c.items : c.items[k][2] = project})]

DoubleCheckouts(c) ==
  {project \in DepProjects : Cardinality(PathsOf(c, project)) >= 2}

\* C8 as stated: a project with two relative paths gets exactly one entry and
\* exactly one 'double checkout' warning, whatever the blacklist is.
C8_OneEntryOneWarningWhateverBlacklist ==
  \A n \in DOMAIN convLog : \A project \in DoubleCheckouts(convLog[n]) :
    /\ Cardinality(EntriesOf(convLog[n], project)) = 1
    /\ Cardinality(WarningsOf(convLog[n], "double checkout", project)) = 1

\* C8 as amended: a project with several relative paths that is not in the
\* blacklist gets exactly one entry, at the path of its first item (items of
\* one project keep the order in which the mapping enumerates them), and one
\* 'double checkout' warning for each further path (one, for two paths); a
\* project that is in the blacklist gets no entry and no 'double checkout'
\* warning, but a 'Skipping' warning for each of its paths.
C8_OneEntryUnlessBlacklisted ==
  \A n \in DOMAIN convLog : \A project \in DoubleCheckouts(convLog[n]) :
    LET c == convLog[n]
        k == Cardinality(PathsOf(c, project))
    IN  IF project \in c.blacklist
        THEN /\ EntriesOf(c, project) = {}
             /\ WarningsOf(c, "double checkout", project) = {}
             /\ Cardinality(WarningsOf(c, "skipping", project)) = k
        ELSE /\ Cardinality(EntriesOf(c, project)) = 1
             /\ \A i \in EntriesOf(c, project) :
                  c.out[i].path = <<"chromium">> \o FirstItemOf(c, project)[1]
             /\ Cardinality(WarningsOf(c, "double checkout", project)) = k - 1
             /\ WarningsOf(c, "skipping", project) = {}

\* both cases in one run: .DEPS.git with a double checkout that is written
\* once, cros.DEPS with a double checkout of a blacklisted project
C8_Witness ==
  /\ Len(convLog) >= 2
  /\ \E project \in DoubleCheckouts(convLog[1]) :
       Cardinality(EntriesOf(convLog[1], project)) = 1
  /\ \E project \in DoubleCheckouts(convLog[2]) :
       project \in convLog[2].blacklist

ForeignProjects(text) ==
  {t \in ProjectToks(text) : ~StartsWithChromium(GetPath(t))}

\* how many <project> elements of the text have the name
NameCount(text, name) ==
  Cardinality({i \in DOMAIN text :
                 text[i].k = "project" /\ text[i].name = name})

UniqueNames(text) == \A t \in ProjectToks(text) : NameCount(text, t.name) = 1

\* C2: when the region CreateNewManifest is about to replace holds a project
\* whose path does not start with chromium/ (or that has no path), the run
\* ends in ManifestException and neither the staged file nor the live
\* manifest is written.
C2_ForeignProjectAbortsBeforeWrite ==
  (pc # "start" /\ parts.ok /\ ForeignProjects(parts.mid) # {})
  => /\ pc = "failed"
     /\ exc = "ManifestException"
     /\ ~generated.done
     /\ Files = atStart

\* the same for regions in which no two <project> elements share a name
C2_HoldsForUniqueNames ==
  (pc # "start" /\ parts.ok /\ ForeignProjects(parts.mid) # {}
   /\ UniqueNames(parts.mid))
  => /\ pc = "failed"
     /\ exc = "ManifestException"
     /\ ~generated.done
     /\ Files = atStart

\* whether a mapping gives one project for two relative paths
HasDoubleCheckout(mappings) ==
  \E x, y \in DOMAIN mappings : x # y /\ mappings[x] = mappings[y]

NoDoubleCheckouts ==
  /\ ~HasDoubleCheckout(deps)
  /\ ~HasDoubleCheckout(crosDeps)
  /\ ~HasDoubleCheckout(intDeps)

\* C5: in the run after one that moved the staged manifest over the live one,
\* with the same mappings, the regenerated document equals the live one and
\* the run stops there: no trial sync and no PushChanges.
C5_IdenticalRerunIsNoOp ==
  (prev.ran /\ prev.moved)
  => /\ calls = <<>>
     /\ pc \in {"start", "created", "noop"}
     /\ generated.done => (generated.complete /\ generated.doc = live)

\* the same for mappings without double checkouts
C5_HoldsWithoutDoubleCheckouts ==
  (prev.ran /\ prev.moved /\ NoDoubleCheckouts)
  => /\ calls = <<>>
     /\ pc \in {"start", "created", "noop"}
     /\ generated.done => (generated.complete /\ generated.doc = live)

\* C6: two runs of CreateNewManifest on the same live manifest and the same
\* mappings write the same document, however the mappings' items are
\* enumerated.
C6_SameInputsSameDocument ==
  (prev.ran /\ prev.generated.done /\ generated.done
   /\ prev.live = atStart.live)
  => generated.doc = prev.generated.doc

\* the same for mappings without double checkouts
C6_HoldsWithoutDoubleCheckouts ==
  (prev.ran /\ prev.generated.done /\ generated.done
   /\ prev.live = atStart.live /\ NoDoubleCheckouts)
  => generated.doc = prev.generated.doc

\* C10: in a staged document written in full from a live manifest whose text
\* outside the markers names each project once, every project name is in at
\* most one <project> element.
C10_ProjectNamesUnique ==
  (generated.complete /\ UniqueNames(parts.top \o parts.bot))
  => UniqueNames(generated.doc)

====
